---- MODULE Spec2Model ----
(***************************************************************************)
(* Model of the DICOM data set token readers of dicom-core:               *)
(* DataSetReader (streaming) and LazyDataSetReader (marker-only), over a  *)
(* byte source abstracted as a sequence of wire units (element headers,   *)
(* element values and undecodable garbage).                               *)
(***************************************************************************)
EXTENDS Integers, Sequences, FiniteSets, TLC

(* ---------------------------------------------------------------------- *)
(* Primitive data model: Length, Tag, headers                             *)
(* ---------------------------------------------------------------------- *)

\* u32 values are held as their 32-bit pattern read as i32: 0xFFFF_FFFF is -1
UNDEFINED_LEN == -1

U32Max == -1

\* equality of the raw u32 (a derived PartialEq)
LengthEq_Derived(a, b) == a = b

\* Length: PartialEq, undefined is never equal to anything
LengthEq(a, b) == IF a = UNDEFINED_LEN \/ b = UNDEFINED_LEN THEN FALSE ELSE a = b

\* Tags are <<group, element>> pairs (decimal spelling of the hex constants)
CharSetTag == <<8, 5>>
PatientNameTag == <<16, 16>>
SeqTag == <<64, 629>>
DtTag == <<64, 41008>>
ItemTag == <<65534, 57344>>
ItemDelimTag == <<65534, 57357>>
SeqDelimTag == <<65534, 57565>>

Header(t, vr, l) == [tag |-> t, vr |-> vr, len |-> l]

\* SequenceItemHeader::new without the item delimiter length check
SequenceItemHeaderNew_NoLenCheck(t, l) ==
  IF t = ItemTag THEN [ok |-> TRUE, sih |-> [k |-> "Item", len |-> l], e |-> "none"]
  ELSE IF t = ItemDelimTag
    THEN [ok |-> TRUE, sih |-> [k |-> "ItemDelimiter", len |-> 0], e |-> "none"]
  ELSE IF t = SeqDelimTag
    THEN [ok |-> TRUE, sih |-> [k |-> "SequenceDelimiter", len |-> 0], e |-> "none"]
  ELSE [ok |-> FALSE, sih |-> [k |-> "none", len |-> 0], e |-> "UnexpectedElement"]

\* SequenceItemHeader::new(tag, len)
SequenceItemHeaderNew(t, l) ==
  IF t = ItemTag THEN [ok |-> TRUE, sih |-> [k |-> "Item", len |-> l], e |-> "none"]
  ELSE IF t = ItemDelimTag
    THEN IF ~LengthEq(l, 0)
           THEN [ok |-> FALSE, sih |-> [k |-> "none", len |-> 0], e |-> "UnexpectedDataValueLength"]
           ELSE [ok |-> TRUE, sih |-> [k |-> "ItemDelimiter", len |-> 0], e |-> "none"]
  ELSE IF t = SeqDelimTag
    THEN [ok |-> TRUE, sih |-> [k |-> "SequenceDelimiter", len |-> 0], e |-> "none"]
  ELSE [ok |-> FALSE, sih |-> [k |-> "none", len |-> 0], e |-> "UnexpectedElement"]

\* from_code that falls back to the default repertoire for unknown codes
FromCode_UnknownIsDefault(uid) ==
  IF uid = "ISO_IR_192" THEN "IsoIr192" ELSE "Default"

\* SpecificCharacterSet::from_code
FromCode(uid) ==
  IF uid \in {"Default", "ISO_IR_6"} THEN "Default"
  ELSE IF uid = "ISO_IR_192" THEN "IsoIr192"
  ELSE "None"

Charsets == {"Default", "IsoIr192"}

(* ---------------------------------------------------------------------- *)
(* VR: variants AE, AS, AT, CS, DA, DS, DT, FL, FD, IS, LO, LT, OB, OD,   *)
(* OF, OL, OW, PN, SH, SL, SQ, SS, ST, TM, UC, UI, UL, UN, UR, US, UT,    *)
(* numbered 1..31 in declaration order; strings are their UTF-8 bytes      *)
(* ---------------------------------------------------------------------- *)

VRVariants == 1..31

\* VR::to_string: the code of each variant, as bytes
VRToString(v) ==
  << <<65, 69>>, <<65, 83>>, <<65, 84>>, <<67, 83>>, <<68, 65>>, <<68, 83>>,
     <<68, 84>>, <<70, 76>>, <<70, 68>>, <<73, 83>>, <<76, 79>>, <<76, 84>>,
     <<79, 66>>, <<79, 68>>, <<79, 70>>, <<79, 76>>, <<79, 87>>, <<80, 78>>,
     <<83, 72>>, <<83, 76>>, <<83, 81>>, <<83, 83>>, <<83, 84>>, <<84, 77>>,
     <<85, 67>>, <<85, 73>>, <<85, 76>>, <<85, 78>>, <<85, 82>>, <<85, 83>>,
     <<85, 84>> >>[v]

\* VR::to_bytes: the first two bytes of to_string
VRToBytes(v) == <<VRToString(v)[1], VRToString(v)[2]>>

NoVR == 0

\* VR::from_str matched ignoring ASCII case
AsciiUpper(c) == IF c \in 97..122 THEN c - 32 ELSE c
VRFromStr_CaseInsensitive(str) ==
  IF \E v \in VRVariants : VRToString(v) = [i \in 1..Len(str) |-> AsciiUpper(str[i])]
    THEN CHOOSE v \in VRVariants : VRToString(v) = [i \in 1..Len(str) |-> AsciiUpper(str[i])]
    ELSE NoVR

\* VR::from_str: exact match against the 31 codes, otherwise None
VRFromStr(str) ==
  IF \E v \in VRVariants : VRToString(v) = str
    THEN CHOOSE v \in VRVariants : VRToString(v) = str
    ELSE NoVR

\* std::str::from_utf8 on two bytes: two ASCII bytes or one two-byte sequence
Utf8Valid2(b) ==
  \/ b[1] < 128 /\ b[2] < 128
  \/ b[1] \in 194..223 /\ b[2] \in 128..191

\* VR::from_binary
VRFromBinary(b) == IF Utf8Valid2(b) THEN VRFromStr(b) ELSE NoVR

(* ---------------------------------------------------------------------- *)
(* Wire units of the byte source                                          *)
(* ---------------------------------------------------------------------- *)

\* byte size of an encoded header (explicit VR little endian): item and
\* delimiter headers take 8 bytes, SQ/UN headers 12, other elements 8
HeaderSize(t, vr) == IF t[1] = 65534 THEN 8 ELSE IF vr \in {"SQ", "UN"} THEN 12 ELSE 8

HdrUnit(t, vr, l) == [k |-> "hdr", h |-> Header(t, vr, l), s |-> "", size |-> HeaderSize(t, vr)]
ValUnit(str, n) == [k |-> "val", h |-> Header(<<0, 0>>, "none", 0), s |-> str, size |-> n]
BadUnit == [k |-> "bad", h |-> Header(<<0, 0>>, "none", 0), s |-> "", size |-> 8]

\* strings carried by values; "BIN" stands for a value that is not a string
NonString == "BIN"

NoHeader == Header(<<0, 0>>, "none", 0)
NoValue == [s |-> "", codec |-> "none"]

(* ---------------------------------------------------------------------- *)
(* Parser capability (DicomParser: decode_header, decode_item_header,     *)
(* read_value, set_character_set), reading units from the source          *)
(* ---------------------------------------------------------------------- *)

\* decode_header: Ok(header), Err(Io(UnexpectedEof)) at end of source, other Err
DecodeHeader(src) ==
  IF src = <<>> THEN [ok |-> FALSE, h |-> NoHeader, e |-> "eof"]
  ELSE IF Head(src).k = "hdr" THEN [ok |-> TRUE, h |-> Head(src).h, e |-> "none"]
  ELSE [ok |-> FALSE, h |-> NoHeader, e |-> "invalid"]

\* decode_item_header: the raw tag and length go through SequenceItemHeader::new
DecodeItemHeader(src) ==
  IF src = <<>> THEN [ok |-> FALSE, sih |-> [k |-> "none", len |-> 0], e |-> "eof"]
  ELSE IF Head(src).k = "hdr" THEN SequenceItemHeaderNew(Head(src).h.tag, Head(src).h.len)
  ELSE [ok |-> FALSE, sih |-> [k |-> "none", len |-> 0], e |-> "invalid"]

\* the decoder's normalization of a character set defined term: the space
\* of the DICOM term stands for the underscore of the recognized UID
CharsetTermNormalize(s) ==
  IF s = "ISO_IR 192" THEN "ISO_IR_192"
  ELSE IF s = "ISO_IR 6" THEN "ISO_IR_6"
  ELSE s

\* read_value without the normalization of the decoded string
ReadValue_Unnormalized(src, codec) ==
  IF src = <<>> THEN [ok |-> FALSE, v |-> NoValue, e |-> "eof"]
  ELSE IF Head(src).k = "val" THEN [ok |-> TRUE, v |-> [s |-> Head(src).s, codec |-> codec], e |-> "none"]
  ELSE [ok |-> FALSE, v |-> NoValue, e |-> "invalid"]

\* read_value: the value is decoded with the parser's active text codec and
\* the decoded string is normalized
ReadValue(src, codec) ==
  IF src = <<>> THEN [ok |-> FALSE, v |-> NoValue, e |-> "eof"]
  ELSE IF Head(src).k = "val"
    THEN [ok |-> TRUE, v |-> [s |-> CharsetTermNormalize(Head(src).s), codec |-> codec], e |-> "none"]
  ELSE [ok |-> FALSE, v |-> NoValue, e |-> "invalid"]

Rest(src) == IF src = <<>> THEN <<>> ELSE Tail(src)

\* PrimitiveValue::string
ValueString(v) == IF v.s = NonString THEN "None" ELSE v.s

(* ---------------------------------------------------------------------- *)
(* Results returned by next(): tokens, markers, errors, end of stream      *)
(* ---------------------------------------------------------------------- *)

Tok(kind, t, l, hd, val, err) ==
  [k |-> kind, tag |-> t, len |-> l, h |-> hd, v |-> val, e |-> err, pos |-> 0]

\* an item header reported as ItemStart
TokElementHeader_ItemAsItemStart(hd) ==
  IF hd.tag = ItemTag THEN Tok("ItemStart", <<0, 0>>, hd.len, NoHeader, NoValue, "none")
  ELSE Tok("ElementHeader", hd.tag, hd.len, hd, NoValue, "none")

TokElementHeader(hd) == Tok("ElementHeader", hd.tag, hd.len, hd, NoValue, "none")
TokSequenceStart(t, l) == Tok("SequenceStart", t, l, NoHeader, NoValue, "none")
TokSequenceEnd == Tok("SequenceEnd", <<0, 0>>, 0, NoHeader, NoValue, "none")
TokItemStart(l) == Tok("ItemStart", <<0, 0>>, l, NoHeader, NoValue, "none")
TokItemEnd == Tok("ItemEnd", <<0, 0>>, 0, NoHeader, NoValue, "none")
TokPrimitiveValue(val) == Tok("PrimitiveValue", <<0, 0>>, 0, NoHeader, val, "none")
ResErr(err) == Tok("Err", <<0, 0>>, 0, NoHeader, NoValue, err)
ResNone == Tok("None", <<0, 0>>, 0, NoHeader, NoValue, "none")
ResPanic == Tok("Panic", <<0, 0>>, 0, NoHeader, NoValue, "none")

(* ---------------------------------------------------------------------- *)
(* Bounds and inputs                                                       *)
(* ---------------------------------------------------------------------- *)

MaxSrcLen == 3

MaxCalls == 8

MaxMoves == 1

\* the alphabet of the bounded input streams
Units ==
  { HdrUnit(CharSetTag, "CS", 10),
    HdrUnit(PatientNameTag, "PN", 8),
    HdrUnit(SeqTag, "SQ", UNDEFINED_LEN),
    HdrUnit(ItemTag, "UN", UNDEFINED_LEN),
    HdrUnit(ItemDelimTag, "UN", 0),
    HdrUnit(SeqDelimTag, "UN", 0),
    ValUnit("ISO_IR_192", 10),
    ValUnit("NAME", 8),
    ValUnit(NonString, 8),
    BadUnit }

SeqsUpTo(S, n) == UNION {[1..m -> S] : m \in 0..n}

\* scenario B: defined-length SQ (len 24) with one defined-length item (len 16)
\* holding one DT element of length 8; no delimiters on the wire
ScenarioB ==
  << HdrUnit(SeqTag, "SQ", 24), HdrUnit(ItemTag, "UN", 16),
     HdrUnit(DtTag, "DT", 8), ValUnit("20200101", 8) >>

\* scenario C: undefined-length SQ and item, closed by delimiters
ScenarioC ==
  << HdrUnit(SeqTag, "SQ", UNDEFINED_LEN), HdrUnit(ItemTag, "UN", UNDEFINED_LEN),
     HdrUnit(PatientNameTag, "PN", 8), ValUnit("NAME", 8),
     HdrUnit(ItemDelimTag, "UN", 0), HdrUnit(SeqDelimTag, "UN", 0) >>

\* scenario D: (0008,0005) CS "ISO_IR 192", then (0010,0010) PN in UTF-8
ScenarioD ==
  << HdrUnit(CharSetTag, "CS", 10), ValUnit("ISO_IR 192", 10),
     HdrUnit(PatientNameTag, "PN", 8), ValUnit("NAME", 8) >>

\* (0008,0005) CS "ISO_IR_192", then (0010,0010) PN
ScenarioUtf8 ==
  << HdrUnit(CharSetTag, "CS", 10), ValUnit("ISO_IR_192", 10),
     HdrUnit(PatientNameTag, "PN", 8), ValUnit("NAME", 8) >>

Sources == SeqsUpTo(Units, MaxSrcLen) \cup {ScenarioB, ScenarioC, ScenarioD, ScenarioUtf8}

(* ---------------------------------------------------------------------- *)
(* State                                                                   *)
(* ---------------------------------------------------------------------- *)

VARIABLES
  src0,         \* the input the reader was built over
  src,          \* unread part of the byte source
  build,        \* "debug" or "release": integer overflow panics or wraps
  codec,        \* the parser's active text codec
  depth, in_sequence, hard_break, last_header,   \* DataSetReader fields
  panicked,     \* a next() call panicked
  hist,         \* results returned by next() so far
  ops,          \* parser calls made by the last next() call
  lz_src, lz_pos,                          \* LazyDataSetReader source and its offset
  lz_depth, lz_in_sequence, lz_hard_break, \* LazyDataSetReader fields
  lz_panicked, lz_hist,
  lz_codec,     \* the lazy reader's parser text codec
  lz_moves,     \* seeks of the shared source to a marker so far
  la, lb, li,   \* operands of a Length operation (u32, u32, i32)
  lop, lres,    \* the Length operation applied and its result
  fop, fin, fout   \* a pure function applied, its input and its output

stVars == <<src, codec, depth, in_sequence, hard_break, last_header, panicked, hist, ops>>

lzVars == <<lz_src, lz_pos, lz_depth, lz_in_sequence, lz_hard_break, lz_panicked, lz_hist, lz_codec, lz_moves>>

lenVars == <<la, lb, li, lop, lres>>

fnVars == <<fop, fin, fout>>

vars == <<src0, build, stVars, lzVars, lenVars, fnVars>>

\* no pure function applied
FnIdle == fop = "none" /\ fin = "none" /\ fout = "none"

(* ---------------------------------------------------------------------- *)
(* Length arithmetic and comparison                                        *)
(* ---------------------------------------------------------------------- *)

\* a u32 (as its i32 bit pattern) split into 16-bit halves, and back
Hi16(x) == (x \div 65536) % 65536
Lo16(x) == x % 65536
FromHalves(h, l) == IF h < 32768 THEN h * 65536 + l ELSE (h - 65536) * 65536 + l

\* u32 `l1 + l2` / `l1 - l2`: wrapped result and whether it overflowed
U32Add(a, b) ==
  LET lo == Lo16(a) + Lo16(b)
      hi == Hi16(a) + Hi16(b) + lo \div 65536 IN
  [ovf |-> hi >= 65536, r |-> FromHalves(hi % 65536, lo % 65536)]
U32Sub(a, b) ==
  LET lo == Lo16(a) - Lo16(b)
      hi == Hi16(a) - Hi16(b) + lo \div 65536 IN
  [ovf |-> hi < 0, r |-> FromHalves(hi % 65536, lo % 65536)]
U32Less(a, b) == Hi16(a) < Hi16(b) \/ (Hi16(a) = Hi16(b) /\ Lo16(a) < Lo16(b))

\* i32 `len as i32 + rhs` / `len as i32 - rhs` (same bit patterns)
I32Add(a, n) ==
  LET s == U32Add(a, n).r IN [ovf |-> (a < 0) = (n < 0) /\ (s < 0) # (a < 0), r |-> s]
I32Sub(a, n) ==
  LET s == U32Sub(a, n).r IN [ovf |-> (a < 0) # (n < 0) /\ (s < 0) # (a < 0), r |-> s]

\* Length::defined: assert_ne!(len, UNDEFINED_LEN)
LengthDefined(x) == [panic |-> x = UNDEFINED_LEN, r |-> x]

\* PartialEq::ne (default: negation of eq)
LengthNe(a, b) == ~LengthEq(a, b)

\* PartialOrd<Length> for Length
LengthPartialCmp(a, b) ==
  IF a = UNDEFINED_LEN \/ b = UNDEFINED_LEN THEN "None"
  ELSE IF a = b THEN "Equal"
  ELSE IF U32Less(a, b) THEN "Less" ELSE "Greater"
LengthLt(a, b) == LengthPartialCmp(a, b) = "Less"
LengthGt(a, b) == LengthPartialCmp(a, b) = "Greater"
LengthLe(a, b) == LengthPartialCmp(a, b) \in {"Less", "Equal"}
LengthGe(a, b) == LengthPartialCmp(a, b) \in {"Greater", "Equal"}

\* Add<Length> for Length: u32 overflow panics in debug builds, then the
\* debug_assert rejects a result equal to the sentinel
LengthAdd_NoAssert(a, b) ==
  IF a = UNDEFINED_LEN \/ b = UNDEFINED_LEN THEN [panic |-> FALSE, r |-> UNDEFINED_LEN]
  ELSE LET o == U32Add(a, b) IN [panic |-> build = "debug" /\ o.ovf, r |-> o.r]

LengthAdd(a, b) ==
  IF a = UNDEFINED_LEN \/ b = UNDEFINED_LEN THEN [panic |-> FALSE, r |-> UNDEFINED_LEN]
  ELSE LET o == U32Add(a, b) IN
       [panic |-> build = "debug" /\ (o.ovf \/ o.r = UNDEFINED_LEN), r |-> o.r]

\* Sub<Length> for Length
LengthSub(a, b) ==
  IF a = UNDEFINED_LEN \/ b = UNDEFINED_LEN THEN [panic |-> FALSE, r |-> UNDEFINED_LEN]
  ELSE LET o == U32Sub(a, b) IN
       [panic |-> build = "debug" /\ (o.ovf \/ o.r = UNDEFINED_LEN), r |-> o.r]

\* Add<i32> / Sub<i32> for Length
LengthAddI32(a, n) ==
  IF a = UNDEFINED_LEN THEN [panic |-> FALSE, r |-> UNDEFINED_LEN]
  ELSE LET o == I32Add(a, n) IN
       [panic |-> build = "debug" /\ (o.ovf \/ o.r = UNDEFINED_LEN), r |-> o.r]
LengthSubI32(a, n) ==
  IF a = UNDEFINED_LEN THEN [panic |-> FALSE, r |-> UNDEFINED_LEN]
  ELSE LET o == I32Sub(a, n) IN
       [panic |-> build = "debug" /\ (o.ovf \/ o.r = UNDEFINED_LEN), r |-> o.r]

NoLengthResult == [panic |-> FALSE, b |-> FALSE, r |-> 0]

\* no Length operation applied
LenIdle == la = 0 /\ lb = 0 /\ li = 0 /\ lop = "none" /\ lres = NoLengthResult

\* u32 `depth -= 1` / `depth += 1`
\* (on the i32 bit pattern of the u32)
DepthDec(d) == IF d = 0 THEN [panic |-> (build = "debug"), d |-> U32Max] ELSE [panic |-> FALSE, d |-> d - 1]
DepthInc(d) == IF d = U32Max THEN [panic |-> (build = "debug"), d |-> 0] ELSE [panic |-> FALSE, d |-> d + 1]

\* the lazy reader is not in use under the streaming reader's specification
LzIdle ==
  /\ lz_src = <<>> /\ lz_pos = 0 /\ lz_depth = 0 /\ lz_in_sequence = FALSE
  /\ lz_hard_break = FALSE /\ lz_panicked = FALSE /\ lz_hist = <<>>
  /\ lz_codec = "Default" /\ lz_moves = 0

\* the fields set by a constructor that leaves the reader fused
DataSetReaderNew_Fused ==
  /\ depth = 0
  /\ in_sequence = FALSE
  /\ hard_break = TRUE
  /\ last_header = <<>>
  /\ panicked = FALSE
  /\ hist = <<>>
  /\ ops = <<>>

\* DataSetReader::new / new_with / new_with_dictionary: the reader's fields
DataSetReaderNew ==
  /\ depth = 0
  /\ in_sequence = FALSE
  /\ hard_break = FALSE
  /\ last_header = <<>>
  /\ panicked = FALSE
  /\ hist = <<>>
  /\ ops = <<>>

\* DataSetReader built over a source with a character set
Init ==
  /\ src0 \in Sources
  /\ src = src0
  /\ build \in {"debug", "release"}
  /\ codec \in Charsets
  /\ DataSetReaderNew
  /\ LzIdle
  /\ LenIdle
  /\ FnIdle

\* a caller that catches a panic may call next() again on the same reader
CanCall == Len(hist) < MaxCalls

Emit(r) == hist' = Append(hist, r)

\* next(): fused
NextTerminal ==
  /\ CanCall /\ hard_break
  /\ Emit(ResNone)
  /\ ops' = <<>>
  /\ UNCHANGED <<src0, src, build, codec, depth, in_sequence, hard_break, last_header, panicked>>
  /\ UNCHANGED lzVars
  /\ UNCHANGED lenVars
  /\ UNCHANGED fnVars

\* item header decode error: surfaced, reader fused
ItemHeaderFailed_NoFuse(e) ==
  /\ hard_break' = FALSE
  /\ Emit(ResErr(e))
  /\ UNCHANGED <<depth, in_sequence, panicked>>

ItemHeaderFailed(e) ==
  /\ hard_break' = TRUE
  /\ Emit(ResErr(e))
  /\ UNCHANGED <<depth, in_sequence, panicked>>

\* next() in S2: decode an item header
NextItemHeader ==
  /\ CanCall /\ ~hard_break /\ in_sequence
  /\ ops' = <<"decode_item_header">>
  /\ LET r == DecodeItemHeader(src) IN
     /\ src' = Rest(src)
     /\ IF ~r.ok
          THEN ItemHeaderFailed(r.e)
        ELSE IF r.sih.k = "Item"
          THEN /\ in_sequence' = FALSE
               /\ Emit(TokItemStart(r.sih.len))
               /\ UNCHANGED <<depth, hard_break, panicked>>
        ELSE IF r.sih.k = "ItemDelimiter"
          THEN /\ in_sequence' = TRUE
               /\ Emit(TokItemEnd)
               /\ UNCHANGED <<depth, hard_break, panicked>>
        ELSE LET dd == DepthDec(depth) IN
             IF dd.panic
               THEN /\ panicked' = TRUE
                    /\ Emit(ResPanic)
                    /\ UNCHANGED <<depth, in_sequence, hard_break>>
               ELSE /\ depth' = dd.d
                    /\ in_sequence' = FALSE
                    /\ Emit(TokSequenceEnd)
                    /\ UNCHANGED <<hard_break, panicked>>
  /\ UNCHANGED <<src0, build, codec, last_header>>
  /\ UNCHANGED lzVars
  /\ UNCHANGED lenVars
  /\ UNCHANGED fnVars

\* value read error: surfaced, pending header dropped, reader fused
ValueReadFailed_AsEnd(e) ==
  /\ hard_break' = TRUE
  /\ last_header' = <<>>
  /\ Emit(ResNone)
  /\ ops' = <<"read_value">>
  /\ UNCHANGED codec

ValueReadFailed_NoFuse(e) ==
  /\ hard_break' = FALSE
  /\ last_header' = <<>>
  /\ Emit(ResErr(e))
  /\ ops' = <<"read_value">>
  /\ UNCHANGED codec

ValueReadFailed(e) ==
  /\ hard_break' = TRUE
  /\ last_header' = <<>>
  /\ Emit(ResErr(e))
  /\ ops' = <<"read_value">>
  /\ UNCHANGED codec

\* (0008,0005) with a recognized character set: set_character_set, then the value
CharsetUpdate_Ignored(cs, csFail, v) ==
  /\ ops' = <<"read_value", "set_character_set">>
  /\ IF csFail
       THEN /\ hard_break' = TRUE
            /\ last_header' = <<>>
            /\ Emit(ResErr("charset"))
            /\ UNCHANGED codec
       ELSE /\ UNCHANGED codec
            /\ last_header' = <<>>
            /\ Emit(TokPrimitiveValue(v))
            /\ UNCHANGED hard_break

CharsetUpdate_KeepHeader(cs, csFail, v) ==
  /\ ops' = <<"read_value", "set_character_set">>
  /\ IF csFail
       THEN /\ hard_break' = TRUE
            /\ UNCHANGED last_header
            /\ Emit(ResErr("charset"))
            /\ UNCHANGED codec
       ELSE /\ codec' = cs
            /\ last_header' = <<>>
            /\ Emit(TokPrimitiveValue(v))
            /\ UNCHANGED hard_break

CharsetUpdate_Reread(cs, csFail, v) ==
  /\ ops' = <<"read_value", "set_character_set", "read_value">>
  /\ IF csFail
       THEN /\ hard_break' = TRUE
            /\ last_header' = <<>>
            /\ Emit(ResErr("charset"))
            /\ UNCHANGED codec
       ELSE /\ codec' = cs
            /\ last_header' = <<>>
            /\ Emit(TokPrimitiveValue(v))
            /\ UNCHANGED hard_break

CharsetUpdate(cs, csFail, v) ==
  /\ ops' = <<"read_value", "set_character_set">>
  /\ IF csFail
       THEN /\ hard_break' = TRUE
            /\ last_header' = <<>>
            /\ Emit(ResErr("charset"))
            /\ UNCHANGED codec
       ELSE /\ codec' = cs
            /\ last_header' = <<>>
            /\ Emit(TokPrimitiveValue(v))
            /\ UNCHANGED hard_break

\* any other value: emitted as is, codec untouched
ValueEmitted(v) ==
  /\ ops' = <<"read_value">>
  /\ last_header' = <<>>
  /\ Emit(TokPrimitiveValue(v))
  /\ UNCHANGED <<codec, hard_break>>

\* next() in S1: read the value of the pending header; (0008,0005) switches the codec
NextValue ==
  /\ CanCall /\ ~hard_break /\ ~in_sequence /\ last_header # <<>>
  /\ \E csFail \in BOOLEAN :
     LET hd == last_header[1]
         r == ReadValue(src, codec)
         cs == FromCode(ValueString(r.v)) IN
     /\ src' = Rest(src)
     /\ IF ~r.ok
          THEN ValueReadFailed(r.e)
        ELSE IF hd.tag = CharSetTag /\ cs # "None"
          THEN CharsetUpdate(cs, csFail, r.v)
        ELSE ValueEmitted(r.v)
  /\ UNCHANGED <<src0, build, depth, in_sequence, panicked>>
  /\ UNCHANGED lzVars
  /\ UNCHANGED lenVars
  /\ UNCHANGED fnVars

\* header decode error: Io(UnexpectedEof) ends the stream cleanly, any other
\* error is surfaced; both fuse the reader
HeaderDecodeFailed_EofIsError(e) ==
  /\ hard_break' = TRUE
  /\ Emit(ResErr(e))
  /\ UNCHANGED <<codec, depth, in_sequence, last_header, panicked>>

HeaderDecodeFailed(e) ==
  /\ hard_break' = TRUE
  /\ Emit(IF e = "eof" THEN ResNone ELSE ResErr(e))
  /\ UNCHANGED <<codec, depth, in_sequence, last_header, panicked>>

\* SQ header: SequenceStart, depth += 1, expect an item header (in_sequence is
\* set before the increment, so it stays set when the increment panics)
SequenceEntered_SaveHeader(h) ==
  LET di == DepthInc(depth) IN
  IF di.panic
    THEN /\ panicked' = TRUE
         /\ in_sequence' = TRUE
         /\ Emit(ResPanic)
         /\ UNCHANGED <<codec, depth, hard_break, last_header>>
    ELSE /\ in_sequence' = TRUE
         /\ depth' = di.d
         /\ last_header' = <<h>>
         /\ Emit(TokSequenceStart(h.tag, h.len))
         /\ UNCHANGED <<codec, hard_break, panicked>>

SequenceEntered(h) ==
  LET di == DepthInc(depth) IN
  IF di.panic
    THEN /\ panicked' = TRUE
         /\ in_sequence' = TRUE
         /\ Emit(ResPanic)
         /\ UNCHANGED <<codec, depth, hard_break, last_header>>
    ELSE /\ in_sequence' = TRUE
         /\ depth' = di.d
         /\ Emit(TokSequenceStart(h.tag, h.len))
         /\ UNCHANGED <<codec, hard_break, last_header, panicked>>

\* (FFFE,E00D) where an element header is expected: ItemEnd, expect an item header
TopLevelItemEnd_StayS0 ==
  /\ in_sequence' = FALSE
  /\ Emit(TokItemEnd)
  /\ UNCHANGED <<codec, depth, hard_break, last_header, panicked>>

TopLevelItemEnd_DecDepth ==
  /\ in_sequence' = TRUE
  /\ depth' = DepthDec(depth).d
  /\ Emit(TokItemEnd)
  /\ UNCHANGED <<codec, hard_break, last_header, panicked>>

TopLevelItemEnd ==
  /\ in_sequence' = TRUE
  /\ Emit(TokItemEnd)
  /\ UNCHANGED <<codec, depth, hard_break, last_header, panicked>>

\* any other header: ElementHeader, kept as the pending header
ElementHeaderRead_CharsetDefault(h) ==
  /\ last_header' = <<h>>
  /\ Emit(TokElementHeader(h))
  /\ codec' = IF h.tag = CharSetTag THEN "Default" ELSE codec
  /\ UNCHANGED <<depth, in_sequence, hard_break, panicked>>

ElementHeaderRead(h) ==
  /\ last_header' = <<h>>
  /\ Emit(TokElementHeader(h))
  /\ UNCHANGED <<codec, depth, in_sequence, hard_break, panicked>>

\* next() in S0: decode an element header
NextHeader ==
  /\ CanCall /\ ~hard_break /\ ~in_sequence /\ last_header = <<>>
  /\ ops' = <<"decode_header">>
  /\ LET r == DecodeHeader(src) IN
     /\ src' = Rest(src)
     /\ IF ~r.ok
          THEN HeaderDecodeFailed(r.e)
        ELSE IF r.h.vr = "SQ"
          THEN SequenceEntered(r.h)
        ELSE IF r.h.tag = ItemDelimTag
          THEN TopLevelItemEnd
        ELSE ElementHeaderRead(r.h)
  /\ UNCHANGED <<src0, build>>
  /\ UNCHANGED lzVars
  /\ UNCHANGED lenVars
  /\ UNCHANGED fnVars

Next == NextTerminal \/ NextItemHeader \/ NextValue \/ NextHeader

Spec == Init /\ [][Next]_vars

(* ---------------------------------------------------------------------- *)
(* LazyDataSetReader                                                       *)
(* ---------------------------------------------------------------------- *)

\* the streaming reader is not in use under the lazy reader's specification
StIdle ==
  /\ src = <<>> /\ codec = "Default" /\ depth = 0 /\ in_sequence = FALSE
  /\ hard_break = FALSE /\ last_header = <<>> /\ panicked = FALSE /\ hist = <<>>
  /\ ops = <<>>

\* LazyDataSetReader::new / new_with: the reader's fields
LazyDataSetReaderNew ==
  /\ lz_pos = 0
  /\ lz_depth = 0
  /\ lz_in_sequence = FALSE
  /\ lz_hard_break = FALSE
  /\ lz_panicked = FALSE
  /\ lz_hist = <<>>

\* LazyDataSetReader built over a source
LazyInit ==
  /\ src0 \in Sources
  /\ build \in {"debug", "release"}
  /\ StIdle
  /\ lz_src = src0
  /\ lz_codec \in Charsets
  /\ lz_moves = 0
  /\ LazyDataSetReaderNew
  /\ LenIdle
  /\ FnIdle

LzDepthDec(d) == IF d = 0 THEN [panic |-> (build = "debug"), d |-> U32Max] ELSE [panic |-> FALSE, d |-> d - 1]
LzDepthInc(d) == IF d = U32Max THEN [panic |-> (build = "debug"), d |-> 0] ELSE [panic |-> FALSE, d |-> d + 1]

LzCanCall == Len(lz_hist) < MaxCalls

LzEmit(r) == lz_hist' = Append(lz_hist, r)

\* bytes consumed by one parser read
Consumed(s) == IF s = <<>> THEN 0 ELSE Head(s).size

Marker(hd, p) == [Tok("Marker", hd.tag, hd.len, hd, NoValue, "none") EXCEPT !.pos = p]

\* From<SequenceItemHeader> for DataElementHeader
SihTag(sih) ==
  IF sih.k = "Item" THEN ItemTag ELSE IF sih.k = "ItemDelimiter" THEN ItemDelimTag ELSE SeqDelimTag
SihLen(sih) == IF sih.k = "Item" THEN sih.len ELSE 0
SihToHeader_NoVR(sih) == Header(SihTag(sih), "none", SihLen(sih))
SihToHeader(sih) == Header(SihTag(sih), "UN", SihLen(sih))

\* markers positioned at the offset before the header was decoded
MarkerResult_BeforeDecode(hd, posFail) == IF posFail THEN ResErr("io") ELSE Marker(hd, lz_pos)

\* create_element_marker / create_item_marker: get_position() may fail,
\* which fuses the reader
MarkerResult(hd, posFail) == IF posFail THEN ResErr("io") ELSE Marker(hd, lz_pos')

\* next(): fused
LzNextTerminal ==
  /\ LzCanCall /\ lz_hard_break
  /\ LzEmit(ResNone)
  /\ UNCHANGED <<lz_src, lz_pos, lz_depth, lz_in_sequence, lz_hard_break, lz_panicked>>
  /\ UNCHANGED <<src0, build, stVars>>
  /\ UNCHANGED <<lz_codec, lz_moves>>
  /\ UNCHANGED lenVars
  /\ UNCHANGED fnVars

\* item header decode error: surfaced, reader fused
LzItemHeaderFailed_NoFuse(e) ==
  /\ lz_hard_break' = FALSE
  /\ LzEmit(ResErr(e))
  /\ UNCHANGED <<lz_depth, lz_in_sequence, lz_panicked>>

LzItemHeaderFailed(e) ==
  /\ lz_hard_break' = TRUE
  /\ LzEmit(ResErr(e))
  /\ UNCHANGED <<lz_depth, lz_in_sequence, lz_panicked>>

\* next() while expecting an item header
LzNextItemHeader ==
  /\ LzCanCall /\ ~lz_hard_break /\ lz_in_sequence
  /\ \E posFail \in BOOLEAN :
     LET r == DecodeItemHeader(lz_src) IN
     /\ lz_src' = Rest(lz_src)
     /\ lz_pos' = lz_pos + Consumed(lz_src)
     /\ IF ~r.ok
          THEN LzItemHeaderFailed(r.e)
        ELSE IF r.sih.k = "Item"
          THEN /\ lz_in_sequence' = FALSE
               /\ lz_hard_break' = posFail
               /\ LzEmit(MarkerResult(SihToHeader(r.sih), posFail))
               /\ UNCHANGED <<lz_depth, lz_panicked>>
        ELSE IF r.sih.k = "ItemDelimiter"
          THEN /\ lz_in_sequence' = TRUE
               /\ lz_hard_break' = posFail
               /\ LzEmit(MarkerResult(SihToHeader(r.sih), posFail))
               /\ UNCHANGED <<lz_depth, lz_panicked>>
        ELSE LET dd == LzDepthDec(lz_depth) IN
             IF dd.panic
               THEN /\ lz_panicked' = TRUE
                    /\ LzEmit(ResPanic)
                    /\ UNCHANGED <<lz_depth, lz_in_sequence, lz_hard_break>>
               ELSE /\ lz_depth' = dd.d
                    /\ lz_in_sequence' = FALSE
                    /\ lz_hard_break' = posFail
                    /\ LzEmit(MarkerResult(SihToHeader(r.sih), posFail))
                    /\ UNCHANGED lz_panicked
  /\ UNCHANGED <<src0, build, stVars>>
  /\ UNCHANGED <<lz_codec, lz_moves>>
  /\ UNCHANGED lenVars
  /\ UNCHANGED fnVars

\* next() otherwise: decode an element header; values are not read
LzNextHeader ==
  /\ LzCanCall /\ ~lz_hard_break /\ ~lz_in_sequence
  /\ \E posFail \in BOOLEAN :
     LET r == DecodeHeader(lz_src) IN
     /\ lz_src' = Rest(lz_src)
     /\ lz_pos' = lz_pos + Consumed(lz_src)
     /\ IF ~r.ok
          THEN /\ lz_hard_break' = TRUE
               /\ LzEmit(ResErr(r.e))
               /\ UNCHANGED <<lz_depth, lz_in_sequence, lz_panicked>>
        ELSE IF r.h.tag = CharSetTag
          THEN /\ lz_hard_break' = posFail
               /\ LzEmit(MarkerResult(r.h, posFail))
               /\ UNCHANGED <<lz_depth, lz_in_sequence, lz_panicked>>
        ELSE IF r.h.vr = "SQ"
          THEN LET di == LzDepthInc(lz_depth) IN
               IF di.panic
                 THEN /\ lz_panicked' = TRUE
                      /\ lz_in_sequence' = TRUE
                      /\ LzEmit(ResPanic)
                      /\ UNCHANGED <<lz_depth, lz_hard_break>>
                 ELSE /\ lz_in_sequence' = TRUE
                      /\ lz_depth' = di.d
                      /\ lz_hard_break' = posFail
                      /\ LzEmit(MarkerResult(r.h, posFail))
                      /\ UNCHANGED lz_panicked
        ELSE /\ lz_hard_break' = posFail
             /\ LzEmit(MarkerResult(r.h, posFail))
             /\ UNCHANGED <<lz_depth, lz_in_sequence, lz_panicked>>
  /\ UNCHANGED <<src0, build, stVars>>
  /\ UNCHANGED <<lz_codec, lz_moves>>
  /\ UNCHANGED lenVars
  /\ UNCHANGED fnVars

RECURSIVE SumSizes(_)
SumSizes(s) == IF s = <<>> THEN 0 ELSE Head(s).size + SumSizes(Tail(s))

\* the unread part of the input when the source is at offset p
SuffixAt(p) ==
  LET k == CHOOSE k \in 0..Len(src0) : SumSizes(SubSeq(src0, 1, k)) = p
  IN SubSeq(src0, k + 1, Len(src0))

\* DicomElementMarker::move_to_start: with a shared source (e.g. S = &File)
\* the caller seeks it to a marker's header end between two next() calls
LzMoveToStart ==
  /\ lz_moves < MaxMoves
  /\ lz_moves' = lz_moves + 1
  /\ \E i \in 1..Len(lz_hist) :
       /\ lz_hist[i].k = "Marker"
       /\ lz_pos' = lz_hist[i].pos
       /\ lz_src' = SuffixAt(lz_hist[i].pos)
  /\ UNCHANGED <<lz_depth, lz_in_sequence, lz_hard_break, lz_panicked, lz_hist, lz_codec>>
  /\ UNCHANGED <<src0, build, stVars>>
  /\ UNCHANGED lenVars
  /\ UNCHANGED fnVars

\* the lazy reader's next() calls
LazyReads == LzNextTerminal \/ LzNextItemHeader \/ LzNextHeader

LazyNext == LazyReads \/ LzMoveToStart

LazySpec == LazyInit /\ [][LazyNext]_vars

(* ---------------------------------------------------------------------- *)
(* Both readers built over the same source, called in any interleaving     *)
(* ---------------------------------------------------------------------- *)

BothInit ==
  /\ src0 \in Sources
  /\ build \in {"debug", "release"}
  /\ codec \in Charsets
  /\ src = src0
  /\ lz_src = src0
  /\ lz_codec = codec
  /\ lz_moves = 0
  /\ DataSetReaderNew
  /\ LazyDataSetReaderNew
  /\ LenIdle
  /\ FnIdle

\* the streaming reader has stopped and one more call returned end of stream
StreamStopped ==
  \/ panicked
  \/ Len(hist) = MaxCalls
  \/ hard_break /\ Len(hist) >= 2 /\ hist[Len(hist) - 1].k \in {"Err", "None"}

\* the caller drains the streaming reader first, then the lazy reader, and
\* does not seek either source
BothNext ==
  \/ Next /\ lz_hist = <<>>
  \/ LazyReads /\ StreamStopped

BothSpec == BothInit /\ [][BothNext]_vars

(* ---------------------------------------------------------------------- *)
(* Length operations                                                       *)
(* ---------------------------------------------------------------------- *)

\* u32 operands: small values, values around 2^31 and around the sentinel
LenVals == {0, 1, 8, 2147483647, -2147483647 - 1, -3, -2, UNDEFINED_LEN}

\* i32 right-hand sides of Length + i32 / Length - i32
I32Vals == {-1, 1, 8}

\* two Lengths and an i32, no operation applied yet; no reader in use
LengthInit ==
  /\ src0 = <<>>
  /\ build \in {"debug", "release"}
  /\ StIdle
  /\ LzIdle
  /\ la \in LenVals /\ lb \in LenVals /\ li \in I32Vals
  /\ lop = "none" /\ lres = NoLengthResult
  /\ FnIdle

CmpResult(b) == [panic |-> FALSE, b |-> b, r |-> 0]
ArithResult(o) == [panic |-> o.panic, b |-> FALSE, r |-> o.r]

LengthCall(name, res) ==
  /\ lop = "none"
  /\ lop' = name
  /\ lres' = res
  /\ UNCHANGED <<src0, build, stVars, lzVars, la, lb, li>>
  /\ UNCHANGED fnVars

LenEqCall == LengthCall("eq", CmpResult(LengthEq(la, lb)))
LenNeCall == LengthCall("ne", CmpResult(LengthNe(la, lb)))
LenLtCall == LengthCall("lt", CmpResult(LengthLt(la, lb)))
LenGtCall == LengthCall("gt", CmpResult(LengthGt(la, lb)))
LenLeCall == LengthCall("le", CmpResult(LengthLe(la, lb)))
LenGeCall == LengthCall("ge", CmpResult(LengthGe(la, lb)))
LenAddCall == LengthCall("add", ArithResult(LengthAdd(la, lb)))
LenSubCall == LengthCall("sub", ArithResult(LengthSub(la, lb)))
LenAddI32Call == LengthCall("add_i32", ArithResult(LengthAddI32(la, li)))
LenSubI32Call == LengthCall("sub_i32", ArithResult(LengthSubI32(la, li)))
LenDefinedCall == LengthCall("defined", ArithResult(LengthDefined(la)))

LengthNext ==
  \/ LenEqCall \/ LenNeCall \/ LenLtCall \/ LenGtCall \/ LenLeCall \/ LenGeCall
  \/ LenAddCall \/ LenSubCall \/ LenAddI32Call \/ LenSubI32Call \/ LenDefinedCall

LengthSpec == LengthInit /\ [][LengthNext]_vars

(* ---------------------------------------------------------------------- *)
(* Pure functions: SequenceItemHeader, VR, text codecs                     *)
(* ---------------------------------------------------------------------- *)

\* no reader in use, no Length operation
FnInit ==
  /\ src0 = <<>>
  /\ build \in {"debug", "release"}
  /\ StIdle
  /\ LzIdle
  /\ LenIdle
  /\ FnIdle

FnCall(name, input, output) ==
  /\ fop = "none"
  /\ fop' = name
  /\ fin' = input
  /\ fout' = output
  /\ UNCHANGED <<src0, build, stVars, lzVars, lenVars>>

\* the three sentinel tags and two element tags; lengths 0, 8, 0xFFFF_FFFE, undefined
SihTags == {ItemTag, ItemDelimTag, SeqDelimTag, PatientNameTag, CharSetTag}
SihLens == {0, 8, -2, UNDEFINED_LEN}

SihNewCall ==
  fop = "none" /\ \E t \in SihTags, l \in SihLens :
    FnCall("sih_new", [tag |-> t, len |-> l], SequenceItemHeaderNew(t, l))

\* every variant's to_bytes / to_string fed back to from_binary / from_str
VrRoundTripCall ==
  fop = "none" /\ \E v \in VRVariants :
    FnCall("vr_round_trip", v,
           [bin |-> VRFromBinary(VRToBytes(v)), str |-> VRFromStr(VRToString(v))])

\* every two-byte input
VrFromBinaryCall ==
  fop = "none" /\ \E b0, b1 \in 0..255 : FnCall("vr_from_binary", <<b0, b1>>, VRFromBinary(<<b0, b1>>))

\* strings: empty, one ASCII character, every two-byte string, three-byte samples
VRStrInputs ==
  {<<>>} \cup {<<c>> : c \in 0..127}
  \cup {b \in (0..255) \X (0..255) : Utf8Valid2(b)}
  \cup {<<65, 69, 88>>, <<83, 81, 32>>, <<226, 130, 172>>}

VrFromStrCall ==
  fop = "none" /\ \E str \in VRStrInputs : FnCall("vr_from_str", str, VRFromStr(str))

\* Length::get
LengthGet(l) == IF l = UNDEFINED_LEN THEN [some |-> FALSE, v |-> 0] ELSE [some |-> TRUE, v |-> l]

\* u64 values as 16-bit halves: lo < 2^16, hi holds the rest
U64OfU32(x) == [hi |-> Hi16(x), lo |-> Lo16(x)]
U64Add(a, b) ==
  [hi |-> a.hi + b.hi + (a.lo + b.lo) \div 65536, lo |-> (a.lo + b.lo) % 65536]
U64Le(a, b) == a.hi < b.hi \/ (a.hi = b.hi /\ a.lo <= b.lo)
U64Zero == [hi |-> 0, lo |-> 0]

\* the u64 hi * 2^16 + lo
U64(hi, lo) == [hi |-> hi, lo |-> lo]

\* SeekInterval::new_at(source, start..end): the absolute interval [start, end)
\* of u64 offsets; a reversed range is an error or an empty interval
SeekIntervalNewAt(start, end, reversedFails) ==
  IF U64Le(start, end) THEN [ok |-> TRUE, begin |-> start, end |-> end, e |-> "none"]
  ELSE IF reversedFails THEN [ok |-> FALSE, begin |-> U64Zero, end |-> U64Zero, e |-> "io"]
  ELSE [ok |-> TRUE, begin |-> start, end |-> start, e |-> "none"]

\* DicomElementMarker::get_data_stream (pos: u64): `self.pos..len` with
\* `len = header.len().get()? as u64`
GetDataStream(pos, len, reversedFails) ==
  LET g == LengthGet(len) IN
  IF ~g.some THEN [ok |-> FALSE, begin |-> U64Zero, end |-> U64Zero, e |-> "UnresolvedValueLength"]
  ELSE SeekIntervalNewAt(pos, U64OfU32(g.v), reversedFails)

\* marker positions and lengths (u32 lengths as their i32 bit pattern:
\* -2 is 0xFFFFFFFE, -2147483648 is 0x80000000)
MarkerPositions == {U64(0, 0), U64(0, 8), U64(0, 20), U64(65536, 8)}
MarkerLens == {0, 8, 10, 30, -2, -2147483647 - 1, UNDEFINED_LEN}

GetDataStreamCall ==
  fop = "none" /\ \E p \in MarkerPositions, l \in MarkerLens, rf \in BOOLEAN :
    FnCall("get_data_stream", [pos |-> p, len |-> l], GetDataStream(p, l, rf))

\* u8 `&`
RECURSIVE BitAnd(_, _)
BitAnd(x, y) ==
  IF x = 0 \/ y = 0 THEN 0
  ELSE 2 * BitAnd(x \div 2, y \div 2) + (IF x % 2 = 1 /\ y % 2 = 1 THEN 1 ELSE 0)

\* decode_text_trap writing the digits low to high
DecodeTextTrap_LowFirst(c) ==
  LET o0 == BitAnd(c, 7)
      o1 == BitAnd(c, 56) \div 8
      o2 == BitAnd(c, 192) \div 64 IN
  [out |-> <<92, o0 + 48, o1 + 48, o2 + 48>>, handled |-> TRUE]

\* decode_text_trap: '\\' then the three octal digits of the byte (chars as code points)
DecodeTextTrap(c) ==
  LET o0 == BitAnd(c, 7)
      o1 == BitAnd(c, 56) \div 8
      o2 == BitAnd(c, 192) \div 64 IN
  [out |-> <<92, o2 + 48, o1 + 48, o0 + 48>>, handled |-> TRUE]

\* encoding::all::ISO_8859_1 index: byte 0x80 + i maps to U+0080 + i
Iso8859_1Forward(i) == 128 + i

\* index value of an unmapped byte
Unmapped == 65535

\* SingleByteEncoding::decode with ISO_8859_1: bytes below 0x80 map to
\* themselves, the others through the index; an unmapped byte is an error
\* under DecoderTrap::Strict and goes to the trap under DecoderTrap::Call
RECURSIVE Iso8859_1Decode(_, _)
Iso8859_1Decode(text, trap) ==
  IF text = <<>> THEN [ok |-> TRUE, s |-> <<>>]
  ELSE LET b == Head(text)
           c == IF b < 128 THEN b ELSE Iso8859_1Forward(b - 128)
           rest == Iso8859_1Decode(Tail(text), trap) IN
       IF c = Unmapped
         THEN IF trap THEN [ok |-> rest.ok, s |-> DecodeTextTrap(b).out \o rest.s]
              ELSE [ok |-> FALSE, s |-> <<>>]
       ELSE [ok |-> rest.ok, s |-> <<c>> \o rest.s]

\* validate_iso_8859
ValidateIso8859(text) ==
  IF ~Iso8859_1Decode(text, FALSE).ok
    THEN IF Iso8859_1Decode(text, TRUE).ok THEN "BadCharacters" ELSE "NotOk"
    ELSE "Ok"

\* DefaultCharacterSetCodec::decode
DefaultCodecDecode(text) == Iso8859_1Decode(text, TRUE)

TextInputs == {<<>>, <<65>>, <<255>>, <<65, 255, 66>>, <<128>>, <<200>>}

ValidateIso8859Call ==
  fop = "none" /\ \E t \in TextInputs : FnCall("validate_iso_8859", t, ValidateIso8859(t))

DefaultDecodeCall ==
  fop = "none" /\ \E t \in TextInputs : FnCall("default_decode", t, DefaultCodecDecode(t))

DecodeTextTrapCall ==
  fop = "none" /\ \E c \in 0..255 : FnCall("decode_text_trap", c, DecodeTextTrap(c))

\* validate_da: every byte in b'0'..=b'9'
ValidateDa(text) ==
  IF \A i \in 1..Len(text) : text[i] >= 48 /\ text[i] <= 57 THEN "Ok" ELSE "NotOk"

\* validate_tm: b'\\' | b'.' | b'-' | b' ' or a digit
ValidateTm(text) ==
  IF \A i \in 1..Len(text) :
       text[i] \in {92, 46, 45, 32} \/ (text[i] >= 48 /\ text[i] <= 57)
    THEN "Ok" ELSE "NotOk"

\* validate_dt: b'.' | b'-' | b'+' | b' ' | b'\\' or a digit
ValidateDt(text) ==
  IF \A i \in 1..Len(text) :
       text[i] \in {46, 45, 43, 32, 92} \/ (text[i] >= 48 /\ text[i] <= 57)
    THEN "Ok" ELSE "NotOk"

\* validate_cs accepting lowercase letters too
ValidateCs_Lowercase(text) ==
  IF \A i \in 1..Len(text) :
       text[i] \in {32, 95} \/ (text[i] >= 48 /\ text[i] <= 57)
       \/ (text[i] >= 65 /\ text[i] <= 90) \/ (text[i] >= 97 /\ text[i] <= 122)
    THEN "Ok" ELSE "NotOk"

\* validate_cs: b' ' | b'_', a digit or b'A'..=b'Z'
ValidateCs(text) ==
  IF \A i \in 1..Len(text) :
       text[i] \in {32, 95} \/ (text[i] >= 48 /\ text[i] <= 57) \/ (text[i] >= 65 /\ text[i] <= 90)
    THEN "Ok" ELSE "NotOk"

\* bytes around the accepted classes: '0' '9' '/' ':' 'A' 'Z' '@' '[' 'a' ' ' '_'
\* '\\' '+' '-' '.' 0xFF
ValidatorBytes == {48, 57, 47, 58, 65, 90, 64, 91, 97, 32, 95, 92, 43, 45, 46, 255}

\* the empty slice, every single byte, and pairs of the bytes above
ValidatorInputs ==
  {<<>>} \cup {<<b>> : b \in 0..255} \cup (ValidatorBytes \X ValidatorBytes)

ValidateDaCall ==
  fop = "none" /\ \E t \in ValidatorInputs : FnCall("validate_da", t, ValidateDa(t))
ValidateTmCall ==
  fop = "none" /\ \E t \in ValidatorInputs : FnCall("validate_tm", t, ValidateTm(t))
ValidateDtCall ==
  fop = "none" /\ \E t \in ValidatorInputs : FnCall("validate_dt", t, ValidateDt(t))
ValidateCsCall ==
  fop = "none" /\ \E t \in ValidatorInputs : FnCall("validate_cs", t, ValidateCs(t))

FnNext ==
  \/ SihNewCall
  \/ ValidateDaCall
  \/ ValidateTmCall
  \/ ValidateDtCall
  \/ ValidateCsCall
  \/ ValidateIso8859Call
  \/ DefaultDecodeCall
  \/ DecodeTextTrapCall
  \/ GetDataStreamCall
  \/ VrRoundTripCall
  \/ VrFromBinaryCall
  \/ VrFromStrCall

FnSpec == FnInit /\ [][FnNext]_vars

(* ---------------------------------------------------------------------- *)
(* Properties                                                              *)
(* ---------------------------------------------------------------------- *)

IsStop(r) == r.k \in {"Err", "None"}

\* tokens (and markers) returned, without errors and end of stream
Tokens(h) == SelectSeq(h, LAMBDA r : r.k \notin {"Err", "None", "Panic"})

\* C1: DataSetReader::next is fused: once a call returns an error or end of
\* stream, every later call returns end of stream.
StreamFused ==
  \A i \in 1..Len(hist) : \A j \in (i + 1)..Len(hist) :
    IsStop(hist[i]) => hist[j].k = "None"

\* an error was returned and a later call returned end of stream
StreamFusedWitness ==
  \E i \in 1..Len(hist) : \E j \in (i + 1)..Len(hist) :
    hist[i].k = "Err" /\ hist[j].k = "None"

\* C2: LazyDataSetReader::next is fused: once a call returns an error, every
\* later call returns end of stream.
LazyFused ==
  \A i \in 1..Len(lz_hist) : \A j \in (i + 1)..Len(lz_hist) :
    IsStop(lz_hist[i]) => lz_hist[j].k = "None"

LazyFusedWitness ==
  \E i \in 1..Len(lz_hist) : \E j \in (i + 1)..Len(lz_hist) :
    lz_hist[i].k = "Err" /\ lz_hist[i].e = "io" /\ lz_hist[j].k = "None"

\* C3: every ElementHeader(h) with h.vr # SQ and a tag outside (FFFE,*) is
\* immediately followed by a PrimitiveValue or by an error.
HeaderThenValue ==
  \A i \in 1..(Len(hist) - 1) :
    (hist[i].k = "ElementHeader" /\ hist[i].h.vr # "SQ" /\ hist[i].tag[1] # 65534)
      => hist[i + 1].k \in {"PrimitiveValue", "Err"}

HeaderThenValueWitness ==
  \E i \in 1..(Len(hist) - 1) :
    /\ hist[i].k = "ElementHeader" /\ hist[i].tag[1] # 65534
    /\ hist[i + 1].k = "PrimitiveValue"

\* number of SequenceStart minus SequenceEnd tokens among the first n results
OpenSeqs(h, n) ==
  Cardinality({i \in 1..n : h[i].k = "SequenceStart"})
    - Cardinality({i \in 1..n : h[i].k = "SequenceEnd"})

CountKind(h, kind) == Cardinality({i \in 1..Len(h) : h[i].k = kind})

CompletedWithoutError ==
  hard_break /\ \A i \in 1..Len(hist) : hist[i].k \notin {"Err", "Panic"}

\* C4: a stream tokenized to completion without error has as many
\* SequenceStart as SequenceEnd and ItemStart as ItemEnd tokens, and every
\* SequenceEnd closes an open SequenceStart.
BalancedBrackets ==
  CompletedWithoutError =>
    /\ CountKind(hist, "SequenceStart") = CountKind(hist, "SequenceEnd")
    /\ CountKind(hist, "ItemStart") = CountKind(hist, "ItemEnd")
    /\ \A i \in 1..Len(hist) : hist[i].k = "SequenceEnd" => OpenSeqs(hist, i - 1) >= 1

\* C5: a defined-length SQ holding one defined-length item with one primitive
\* element is tokenized as SequenceStart, ItemStart, ElementHeader,
\* PrimitiveValue, ItemEnd, SequenceEnd.
DefinedLengthSequenceTokens ==
  (src0 = ScenarioB /\ hard_break) =>
    LET t == Tokens(hist) IN
    /\ Len(t) = 6
    /\ t[1] = TokSequenceStart(SeqTag, 24)
    /\ t[2] = TokItemStart(16)
    /\ t[3].k = "ElementHeader"
    /\ t[4].k = "PrimitiveValue"
    /\ t[5] = TokItemEnd
    /\ t[6] = TokSequenceEnd

\* C6: an undefined-length SQ holding one undefined-length item, both closed
\* by delimiters, is tokenized as SequenceStart{tag,U/L}, ItemStart{U/L},
\* the interior tokens, ItemEnd, SequenceEnd.
UndefinedLengthSequenceTokens ==
  (src0 = ScenarioC /\ hard_break) =>
    LET t == Tokens(hist) IN
    /\ Len(t) = 6
    /\ t[1] = TokSequenceStart(SeqTag, UNDEFINED_LEN)
    /\ t[2] = TokItemStart(UNDEFINED_LEN)
    /\ t[3] = TokElementHeader(Header(PatientNameTag, "PN", 8))
    /\ t[4].k = "PrimitiveValue"
    /\ t[5] = TokItemEnd
    /\ t[6] = TokSequenceEnd

UndefinedLengthSequenceWitness ==
  src0 = ScenarioC /\ hard_break /\ Len(Tokens(hist)) = 6

S0 == ~hard_break /\ ~in_sequence /\ last_header = <<>>

Called == Len(hist') = Len(hist) + 1

Last(h) == h[Len(h)]

\* C7: end of file while decoding an element header in S0 makes next return
\* end of stream (no error) and fuses the reader.
EofAtHeaderIsEnd ==
  [][(S0 /\ src = <<>> /\ Called) => (Last(hist').k = "None" /\ hard_break')]_vars

EofAtHeaderWitness ==
  /\ Len(hist) >= 2
  /\ hist[Len(hist)].k = "None"
  /\ hist[Len(hist) - 1].k = "PrimitiveValue"

\* C8: end of file while reading a value (S1) or an item header (S2) makes
\* next return an error and fuses the reader.
EofElsewhereIsError ==
  [][(~hard_break /\ (in_sequence \/ last_header # <<>>) /\ src = <<>> /\ Called)
       => (Last(hist').k = "Err" /\ hard_break')]_vars

EofElsewhereWitness ==
  \E i \in 1..(Len(hist) - 1) :
    hist[i] = ResErr("eof") /\ hist[i + 1].k = "None" /\ i > 1

\* the i-th result is the value of a (0008,0005) element
IsCharsetValue(i) ==
  i > 1 /\ hist[i].k = "PrimitiveValue"
  /\ hist[i - 1].k = "ElementHeader" /\ hist[i - 1].tag = CharSetTag

\* C9: after the value of (0008,0005) names a recognized character set, every
\* later value (up to the next (0008,0005)) is read with that codec.
CharsetSwitch ==
  \A i \in 1..Len(hist) : \A j \in (i + 1)..Len(hist) :
    (/\ IsCharsetValue(i)
     /\ FromCode(ValueString(hist[i].v)) # "None"
     /\ hist[j].k = "PrimitiveValue"
     /\ \A m \in (i + 1)..(j - 1) : ~IsCharsetValue(m))
      => hist[j].v.codec = FromCode(ValueString(hist[i].v))

CharsetSwitchWitness ==
  \E i \in 1..Len(hist) : \E j \in (i + 1)..Len(hist) :
    /\ IsCharsetValue(i)
    /\ FromCode(ValueString(hist[i].v)) = "IsoIr192"
    /\ hist[j].k = "PrimitiveValue"
    /\ hist[i].v.codec = "Default"

\* C10: with (0008,0005) "ISO_IR 192" first, the (0010,0010) value is read
\* with the UTF-8 codec.
Utf8NameDecoded ==
  src0 = ScenarioD =>
    \A i \in 2..Len(hist) :
      (hist[i].k = "PrimitiveValue" /\ hist[i - 1].tag = PatientNameTag)
        => hist[i].v.codec = "IsoIr192"

\* scenario D read to its (0010,0010) value
Utf8NameWitness ==
  /\ src0 = ScenarioD
  /\ \E i \in 2..Len(hist) :
       hist[i].k = "PrimitiveValue" /\ hist[i - 1].tag = PatientNameTag

S1 == ~hard_break /\ ~in_sequence /\ last_header # <<>>

\* the value about to be read is a (0008,0005) value that is readable
PendingCharsetValue ==
  /\ S1 /\ last_header[1].tag = CharSetTag
  /\ src # <<>> /\ Head(src).k = "val"

RecognizedCodes == {"Default", "ISO_IR_6", "ISO_IR_192"}

\* C11: a (0008,0005) value that is not a string or names no recognized
\* character set is not an error: the codec is kept, the PrimitiveValue is
\* emitted and the reader is back in S0.
UnknownCharsetTolerated ==
  [][(PendingCharsetValue /\ ReadValue(src, codec).v.s \notin RecognizedCodes /\ Called)
       => /\ Last(hist').k = "PrimitiveValue"
          /\ codec' = codec
          /\ ~hard_break' /\ ~in_sequence' /\ last_header' = <<>>]_vars

UnknownCharsetWitness ==
  \E i \in 1..(Len(hist) - 1) :
    /\ IsCharsetValue(i)
    /\ hist[i].v.s \notin RecognizedCodes
    /\ hist[i].v.codec = "IsoIr192"
    /\ hist[i + 1].k # "None"

ItemHeaderTransitions ==
  [][(~hard_break /\ in_sequence /\ Called) =>
       LET r == DecodeItemHeader(src) IN
       IF ~r.ok
         THEN Last(hist') = ResErr(r.e) /\ hard_break'
       ELSE IF r.sih.k = "Item"
         THEN /\ Last(hist') = TokItemStart(r.sih.len)
              /\ ~in_sequence' /\ last_header' = <<>> /\ ~hard_break' /\ depth' = depth
       ELSE IF r.sih.k = "ItemDelimiter"
         THEN /\ Last(hist') = TokItemEnd
              /\ in_sequence' /\ ~hard_break' /\ depth' = depth
       ELSE /\ Last(hist') = TokSequenceEnd
            /\ depth' = DepthDec(depth).d
            /\ ~in_sequence' /\ last_header' = <<>> /\ ~hard_break']_vars

\* C14: in S0, next decodes an element header: VR SQ gives SequenceStart{tag,len},
\* depth + 1 and S2; tag (FFFE,E00D) gives ItemEnd and S2 with depth unchanged;
\* any other header h gives ElementHeader(h), last_header := h and S1.
ElementHeaderTransitions ==
  [][(S0 /\ Called /\ DecodeHeader(src).ok) =>
       LET h == DecodeHeader(src).h IN
       IF h.vr = "SQ"
         THEN /\ Last(hist') = TokSequenceStart(h.tag, h.len)
              /\ depth' = DepthInc(depth).d
              /\ in_sequence' /\ last_header' = <<>> /\ ~hard_break'
       ELSE IF h.tag = ItemDelimTag
         THEN /\ Last(hist') = TokItemEnd
              /\ in_sequence' /\ depth' = depth /\ last_header' = <<>> /\ ~hard_break'
       ELSE /\ Last(hist') = TokElementHeader(h)
            /\ last_header' = <<h>> /\ ~in_sequence' /\ depth' = depth /\ ~hard_break']_vars

\* an ItemEnd returned right after a value, i.e. from S0
ElementHeaderTransitionsWitness ==
  \E i \in 2..Len(hist) :
    hist[i].k = "ItemEnd" /\ hist[i - 1].k = "PrimitiveValue" /\ depth = 0

\* C15: every reachable DataSetReader state is S0, S1, S2 or Terminal; in
\* particular in_sequence and a pending header never hold together.
ReachableStates ==
  /\ ~(in_sequence /\ last_header # <<>>)
  /\ hard_break \/ (~in_sequence /\ last_header = <<>>)
                \/ (~in_sequence /\ last_header # <<>>)
                \/ (in_sequence /\ last_header = <<>>)

\* a Terminal state entered from S2 (in_sequence still set)
ReachableStatesWitness == hard_break /\ in_sequence /\ Len(hist) >= 3

\* C16: every constructor of DataSetReader and of LazyDataSetReader starts in
\* S0 at depth 0: in_sequence false, hard_break false, no pending header.
ConstructorsStartInS0 ==
  /\ Len(hist) = 0 =>
       depth = 0 /\ ~in_sequence /\ ~hard_break /\ last_header = <<>> /\ src = src0
  /\ Len(lz_hist) = 0 =>
       lz_depth = 0 /\ ~lz_in_sequence /\ ~lz_hard_break /\ lz_src = src0

\* both readers freshly built over a non-empty source
ConstructorsWitness == Len(hist) = 0 /\ Len(lz_hist) = 0 /\ src0 # <<>>

\* C17: the parser's codec is changed, and set_character_set called, only by a
\* next() call taken from S1; calls from S0, S2 or Terminal leave the codec as is.
CodecChangedOnlyInS1 ==
  [][(codec' # codec \/ \E i \in 1..Len(ops') : ops'[i] = "set_character_set")
       => (S1 /\ Called)]_vars

\* the codec switched to UTF-8 by a (0008,0005) value and the stream went on
CodecChangedWitness ==
  \E i \in 1..(Len(hist) - 1) :
    /\ IsCharsetValue(i)
    /\ hist[i].v.codec = "Default"
    /\ codec = "IsoIr192"
    /\ hist[i + 1].k = "ElementHeader"

\* C18: each next() call makes at most one parser read: decode_header from S0,
\* decode_item_header from S2, read_value (then possibly set_character_set)
\* from S1, and no parser call at all from Terminal.
OneParserReadPerCall ==
  [][Called =>
       IF hard_break THEN ops' = <<>>
       ELSE IF in_sequence THEN ops' = <<"decode_item_header">>
       ELSE IF last_header = <<>> THEN ops' = <<"decode_header">>
       ELSE ops' \in {<<"read_value">>, <<"read_value", "set_character_set">>}]_vars

\* a (0008,0005) value just emitted after switching the codec
OneParserReadWitness ==
  /\ ops = <<"read_value", "set_character_set">>
  /\ Last(hist).k = "PrimitiveValue"
  /\ Len(hist) >= 2

\* C19: Length is NaN-like: with an undefined operand ==, <, >, <= and >= are
\* false and != is true (so undefined != undefined); + and - with an undefined
\* operand give undefined; defined(a) + defined(b) == defined(a + b) when a + b
\* neither overflows nor hits the sentinel; Length::defined(0xFFFF_FFFF) panics.
LengthNaNSemantics ==
  LET undefIn == la = UNDEFINED_LEN \/ lb = UNDEFINED_LEN
      s == U32Add(la, lb) IN
  /\ lop \in {"eq", "lt", "gt", "le", "ge"} /\ undefIn => ~lres.b
  /\ lop = "ne" /\ undefIn => lres.b
  /\ lop \in {"add", "sub"} /\ undefIn => ~lres.panic /\ lres.r = UNDEFINED_LEN
  /\ lop \in {"add_i32", "sub_i32"} /\ la = UNDEFINED_LEN => ~lres.panic /\ lres.r = UNDEFINED_LEN
  /\ lop = "add" /\ ~undefIn /\ ~s.ovf /\ s.r # UNDEFINED_LEN =>
       /\ ~lres.panic /\ ~LengthDefined(s.r).panic
       /\ LengthEq(lres.r, LengthDefined(s.r).r)
  /\ lop = "defined" => (lres.panic <=> la = UNDEFINED_LEN)

\* undefined != undefined
LengthNaNWitness ==
  lop = "ne" /\ la = UNDEFINED_LEN /\ lb = UNDEFINED_LEN /\ lres.b

\* C20: in a debug build, Length + Length or Length - Length on defined
\* operands whose wrapped 32-bit result is 0xFFFF_FFFF panics instead of
\* yielding an undefined length.
SentinelResultDetected ==
  (/\ build = "debug" /\ lop \in {"add", "sub"}
   /\ la # UNDEFINED_LEN /\ lb # UNDEFINED_LEN
   /\ (IF lop = "add" THEN U32Add(la, lb) ELSE U32Sub(la, lb)).r = UNDEFINED_LEN)
    => lres.panic

\* 0xFFFF_FFFE + 1 in a debug build: no u32 overflow, caught by the debug_assert
SentinelResultWitness ==
  build = "debug" /\ lop = "add" /\ la = -2 /\ lb = 1 /\ lres.panic

\* C21: Length + i32 / Length - i32: undefined stays undefined; a defined
\* length is combined with the delta in signed space and wrapped to u32, for
\* every u32 value and i32 delta, and fails (in debug builds only) exactly
\* when the wrapped result is 0xFFFF_FFFF.
LengthI32Wraps ==
  lop \in {"add_i32", "sub_i32"} =>
    IF la = UNDEFINED_LEN
      THEN ~lres.panic /\ lres.r = UNDEFINED_LEN
      ELSE LET w == IF lop = "add_i32" THEN U32Add(la, li).r ELSE U32Sub(la, li).r IN
           /\ lres.panic <=> (build = "debug" /\ w = UNDEFINED_LEN)
           /\ ~lres.panic => lres.r = w

\* C22: SequenceItemHeader::new(tag, len) gives Item{len} for (FFFE,E000) and
\* any len; fails with UnexpectedDataValueLength for (FFFE,E00D) with len != 0;
\* gives SequenceDelimiter for (FFFE,E0DD) and any len; fails with
\* UnexpectedElement for any other tag.
SihNewValidation ==
  fop = "sih_new" =>
    LET t == fin.tag
        l == fin.len IN
    IF t = ItemTag THEN fout.ok /\ fout.sih = [k |-> "Item", len |-> l]
    ELSE IF t = ItemDelimTag
      THEN /\ l # 0 => ~fout.ok /\ fout.e = "UnexpectedDataValueLength"
           /\ l = 0 => fout.ok /\ fout.sih.k = "ItemDelimiter"
    ELSE IF t = SeqDelimTag THEN fout.ok /\ fout.sih.k = "SequenceDelimiter"
    ELSE ~fout.ok /\ fout.e = "UnexpectedElement"

\* an item delimiter with length 8 rejected
SihNewValidationWitness ==
  fop = "sih_new" /\ fin.tag = ItemDelimTag /\ fin.len = 8 /\ ~fout.ok

\* C23: SequenceItemHeader::new rejects (FFFE,E0DD) with a non-zero length with
\* UnexpectedDataValueLength, as it does for (FFFE,E00D).
SeqDelimNonZeroRejected ==
  (fop = "sih_new" /\ fin.tag = SeqDelimTag /\ fin.len # 0)
    => ~fout.ok /\ fout.e = "UnexpectedDataValueLength"

\* C24: for every VR variant v, from_binary(v.to_bytes()) = Some(v) and
\* from_str(v.to_string()) = Some(v); every other two-byte or string input,
\* lowercase codes included, gives None.
VRRoundTrip ==
  /\ fop = "vr_round_trip" => fout.bin = fin /\ fout.str = fin
  /\ fop = "vr_from_binary" =>
       (fout = NoVR <=> ~\E v \in VRVariants : VRToBytes(v) = fin)
  /\ fop = "vr_from_str" =>
       (fout = NoVR <=> ~\E v \in VRVariants : VRToString(v) = fin)

\* "sq" in lowercase is not a VR
VRRoundTripWitness ==
  fop = "vr_from_str" /\ fin = <<115, 113>> /\ fout = NoVR

LzCalled == Len(lz_hist') = Len(lz_hist) + 1

\* the last lazy result is the marker of a primitive element with a defined,
\* non-zero length
LzAfterPrimitiveMarker ==
  /\ lz_hist # <<>>
  /\ Last(lz_hist).k = "Marker"
  /\ Last(lz_hist).h.vr # "SQ"
  /\ Last(lz_hist).h.tag[1] # 65534
  /\ Last(lz_hist).h.len # UNDEFINED_LEN
  /\ Last(lz_hist).h.len > 0

\* C25: LazyDataSetReader never reads values: after the marker of a primitive
\* element with a defined length the source has been advanced by header.len
\* bytes, so the next header decode starts at pos + len.
LazySkipsValues ==
  [][(LzAfterPrimitiveMarker /\ LzCalled)
       => lz_pos = Last(lz_hist).pos + Last(lz_hist).h.len]_vars

\* total encoded size of a sequence of units
\* C26: every marker of LazyDataSetReader has pos equal to the absolute offset
\* right after its header (element, item or delimiter) was decoded: the offset
\* before the call plus the size of the header the call decoded.
MarkerPosAfterHeader ==
  [][(LzCalled /\ Last(lz_hist').k = "Marker")
       => Last(lz_hist').pos = lz_pos + Head(lz_src).size]_vars

\* an item delimiter marker emitted after a sequence and an item
MarkerPosWitness ==
  \E i \in 3..Len(lz_hist) :
    lz_hist[i].k = "Marker" /\ lz_hist[i].h.tag = ItemDelimTag

\* C27: get_data_stream fails with UnresolvedValueLength when the marker's
\* length is undefined, and otherwise gives the interval [pos, pos + len).
DataStreamInterval ==
  fop = "get_data_stream" =>
    IF fin.len = UNDEFINED_LEN
      THEN ~fout.ok /\ fout.e = "UnresolvedValueLength"
      ELSE /\ fout.ok
           /\ fout.begin = fin.pos
           /\ fout.end = U64Add(fin.pos, U64OfU32(fin.len))

\* C28: every item, item delimiter and sequence delimiter read by
\* LazyDataSetReader gives a marker whose header has the sentinel tag, VR UN
\* and the item's length (0 for delimiters), unless get_position fails; the
\* lazy reader never reconfigures its codec, (0008,0005) included.
LazyItemMarkers ==
  /\ [][(lz_in_sequence /\ ~lz_hard_break /\ LzCalled /\ DecodeItemHeader(lz_src).ok) =>
        LET sih == DecodeItemHeader(lz_src).sih
            t == IF sih.k = "Item" THEN ItemTag
                 ELSE IF sih.k = "ItemDelimiter" THEN ItemDelimTag ELSE SeqDelimTag IN
        \/ Last(lz_hist') = ResErr("io")
        \/ /\ Last(lz_hist').k = "Marker"
           /\ Last(lz_hist').h = Header(t, "UN", IF sih.k = "Item" THEN sih.len ELSE 0)]_vars
  /\ [][lz_codec' = lz_codec]_vars

\* a sequence delimiter read as an item header right after an SQ marker
LazyItemMarkersWitness ==
  \E i \in 2..Len(lz_hist) :
    /\ lz_hist[i - 1].k = "Marker" /\ lz_hist[i - 1].h.vr = "SQ"
    /\ lz_hist[i].k = "Marker" /\ lz_hist[i].h.tag = SeqDelimTag
    /\ lz_codec = "IsoIr192"

\* C29: validate_iso_8859 on the byte 0xFF returns BadCharacters, and the
\* default (ISO 8859-1) codec decodes 0xFF to a string holding \377 there.
Iso8859TrapsFF ==
  /\ (fop = "validate_iso_8859" /\ fin = <<255>>) => fout = "BadCharacters"
  /\ (fop = "default_decode" /\ fin = <<255>>) => fout.ok /\ fout.s = <<92, 51, 55, 55>>

\* C30: for every byte b the decode trap writes a backslash and the octal
\* digits b >> 6, (b >> 3) & 7, b & 7 (most significant first), and reports
\* the byte as handled.
DecodeTrapOctal ==
  fop = "decode_text_trap" =>
    /\ fout.handled
    /\ fout.out = <<92, 48 + fin \div 64, 48 + ((fin \div 8) % 8), 48 + (fin % 8)>>

\* byte 0xA5 written as \245
DecodeTrapOctalWitness ==
  fop = "decode_text_trap" /\ fin = 165 /\ fout.out = <<92, 50, 52, 53>>

\* C31: validate_da is Ok iff every byte is a digit; validate_tm iff every byte
\* is a digit or one of \\ . - space; validate_dt iff every byte is a digit or
\* one of \\ . - + space; validate_cs iff every byte is A-Z, a digit, space or
\* underscore; otherwise NotOk, never BadCharacters; the empty slice is Ok.
ValidatorClasses ==
  LET digits == {"0", "1", "2", "3", "4", "5", "6", "7", "8", "9"}
      upper == {"A", "B", "C", "D", "E", "F", "G", "H", "I", "J", "K", "L", "M",
                "N", "O", "P", "Q", "R", "S", "T", "U", "V", "W", "X", "Y", "Z"}
      \* ASCII code -> character, for the characters named by the claim
      chr == [c \in 32..95 |->
                 IF c \in 48..57 THEN <<"0","1","2","3","4","5","6","7","8","9">>[c - 47]
                 ELSE IF c \in 65..90 THEN <<"A","B","C","D","E","F","G","H","I","J","K","L","M",
                                             "N","O","P","Q","R","S","T","U","V","W","X","Y","Z">>[c - 64]
                 ELSE IF c = 92 THEN "\\" ELSE IF c = 46 THEN "." ELSE IF c = 45 THEN "-"
                 ELSE IF c = 43 THEN "+" ELSE IF c = 32 THEN " " ELSE IF c = 95 THEN "_"
                 ELSE "other"]
      ch(b) == IF b \in 32..95 THEN chr[b] ELSE "other"
      allIn(S) == \A i \in 1..Len(fin) : ch(fin[i]) \in S IN
  /\ fop \in {"validate_da", "validate_tm", "validate_dt", "validate_cs"} => fout \in {"Ok", "NotOk"}
  /\ fop = "validate_da" => (fout = "Ok" <=> allIn(digits))
  /\ fop = "validate_tm" => (fout = "Ok" <=> allIn(digits \cup {"\\", ".", "-", " "}))
  /\ fop = "validate_dt" => (fout = "Ok" <=> allIn(digits \cup {"\\", ".", "-", "+", " "}))
  /\ fop = "validate_cs" => (fout = "Ok" <=> allIn(digits \cup upper \cup {" ", "_"}))

\* a lowercase code string rejected
ValidatorClassesWitness ==
  fop = "validate_cs" /\ fin = <<97, 65>> /\ fout = "NotOk"

\* the lazy reader is where DataSetReader's S0 is: expecting an element header
LzS0 == ~lz_hard_break /\ ~lz_in_sequence

\* C32: LazyDataSetReader makes DataSetReader's transitions on the same decoded
\* headers: from S0 an (FFFE,E00D) header (not SQ) moves it to expecting an
\* item header, and end of file at an S0 header boundary ends the stream
\* cleanly with None.
LazyMirrorsStreaming ==
  /\ [][(LzS0 /\ LzCalled /\ DecodeHeader(lz_src).ok
        /\ DecodeHeader(lz_src).h.tag = ItemDelimTag /\ DecodeHeader(lz_src).h.vr # "SQ")
         => lz_in_sequence']_vars
  /\ [][(LzS0 /\ LzCalled /\ lz_src = <<>>)
         => Last(lz_hist') = ResNone /\ lz_hard_break']_vars

\* C33: DataSetReader's depth always equals the number of SequenceStart tokens
\* minus the number of SequenceEnd tokens emitted so far, and never goes below 0:
\* the u32 decrement on SequenceDelimiter is never applied at depth 0.
DepthTracksSequences ==
  /\ ~panicked
  /\ CountKind(hist, "SequenceStart") >= CountKind(hist, "SequenceEnd")
  /\ depth = CountKind(hist, "SequenceStart") - CountKind(hist, "SequenceEnd")

\* C34: in S0 a decoded non-SQ header with tag (FFFE,E000) or (FFFE,E0DD) is
\* emitted as ElementHeader and kept pending, and the next call reads a value
\* for it; from S0 the streaming reader never emits ItemStart or SequenceEnd.
SentinelHeadersAsElements ==
  /\ [][(S0 /\ Called /\ DecodeHeader(src).ok
        /\ DecodeHeader(src).h.tag \in {ItemTag, SeqDelimTag} /\ DecodeHeader(src).h.vr # "SQ")
         => /\ Last(hist') = TokElementHeader(DecodeHeader(src).h)
            /\ last_header' = <<DecodeHeader(src).h>>
            /\ ~in_sequence' /\ ~hard_break']_vars
  /\ [][(S1 /\ last_header[1].tag \in {ItemTag, SeqDelimTag} /\ Called)
         => ops' = <<"read_value">>]_vars
  /\ [][(S0 /\ Called) => Last(hist').k \notin {"ItemStart", "SequenceEnd"}]_vars

\* a top-level item header followed by a value read for it
SentinelHeadersWitness ==
  \E i \in 1..(Len(hist) - 1) :
    /\ hist[i].k = "ElementHeader" /\ hist[i].tag = ItemTag
    /\ hist[i + 1].k = "PrimitiveValue"
====
